---- MODULE Spec2Model ----
(***************************************************************************)
(* Recording session controller of the demo recorder.                      *)
(*                                                                         *)
(* Tool calls are coroutines of one event loop: a call runs atomically     *)
(* from one `await` to the next, and other calls (and the capture          *)
(* processes themselves) run in between.  Every action below is one such   *)
(* segment of a call, or one step of the environment.                      *)
(***************************************************************************)
EXTENDS Integers, Sequences, FiniteSets, TLC

\* ---------------------------------------------------------------- bounds
MaxTasks == 2      \* tool calls in flight at the same time
MaxSpawn == 2      \* capture processes the controller may spawn in a run
NEnv     == 1      \* processes that exist before the controller starts
MaxFiles == 1      \* distinct output files
MaxSize  == 1      \* largest output-file size
MaxClock == 2      \* latest reading of the local clock
MaxCoord == 3      \* largest window coordinate and screen extent
MaxScreens == 2    \* screens in a topology
MaxScale == 2      \* largest backing scale factor
MaxLines == 3      \* lines of output of the screen enumeration
MaxWins == 2       \* windows a strategy of the window list reports
PipeCap == 2       \* blocks of output a pipe holds
MaxCallers == 2    \* calls of the multiplexer in flight at the same time
MaxReq == 3        \* requests sent to a child in a run

\* ------------------------------------------------------ program constants
DefaultScale == 2  \* scale of the answer when no screen overlaps
QuitPolls == 30    \* polls after 'q'
IntPolls  == 20    \* polls after SIGINT
TermPolls == 20    \* polls after SIGTERM

Tasks   == 1..MaxTasks
EnvPids == 1..NEnv
CtlPids == (NEnv + 1)..(NEnv + MaxSpawn)
Pids    == 1..(NEnv + MaxSpawn)
Logs    == 1..MaxSpawn
Files   == 1..MaxFiles

VARIABLES
    recording_process,     \* _recording_process: 0 is None, else a pid
    recording_path,        \* _recording_path: 0 is None, else a file
    recording_start_time,  \* _recording_start_time: 0 is None, else a reading
    recording_log_file,    \* _recording_log_file: 0 is None, else a log handle
    recording_last_size,   \* _recording_last_size
    procs,                 \* the operating system's process table
    logs,                  \* log handles: "none", "open", "closed"
    files,                 \* output files: -1 is absent, else the size
    tasks,                 \* the tool calls in flight, with their locals
    lastObs,               \* history: size seen by the session's previous poll
    now,                   \* datetime.now(): the reading of the local clock
    geom,                  \* a geometry query: window, screens and the answer
    helper,                \* a call of a helper: its arguments and its answer
    mux                    \* the multiplexer: a child, its requests, the callers

ctl  == <<recording_process, recording_path, recording_start_time,
          recording_log_file, recording_last_size>>
vars == <<recording_process, recording_path, recording_start_time,
          recording_log_file, recording_last_size, procs, logs, files,
          tasks, lastObs, now, geom, helper, mux>>

\* ------------------------------------------------------------ command lines
\* A command line is a sequence of tokens; the recordings directory is the
\* path home/rec, so a reference to it is the two tokens in that order.
RecordingsDir == <<"home", "rec">>

FileTok(f) == IF f = 1 THEN "a.mp4" ELSE IF f = 2 THEN "b.mp4" ELSE "c.mp4"

\* cmd = [ffmpeg, "-y", ..., str(out_path)], out_path = recordings_dir / filename
CaptureCmd(f) == <<"ffmpeg", "-y">> \o RecordingsDir \o <<FileTok(f)>>

EnvCmds ==
    { <<"ffmpeg", "-y", "home", "rec", "old.mp4">>,   \* a left-over capture
      <<"ffmpeg", "-i", "home", "vid", "x.mp4">>,     \* ffmpeg working elsewhere
      <<"ffmpeg", "rec", "home", "x.mp4">>,           \* same words, other path
      <<"vim", "home", "rec", "ffmpeg.txt">>,         \* an editor in the directory
      <<"bash", "home", "rec">> }                     \* no ffmpeg in it

\* a capture left over by a controller that went away without stop()
Orphan == [st |-> "alive", cmd |-> <<"ffmpeg", "-y", "home", "rec", "old.mp4">>,
           own |-> TRUE, by |-> "", opened |-> TRUE, out |-> "log", buf |-> 0]

NoProc ==
    [st |-> "none", cmd |-> <<>>, own |-> FALSE, by |-> "", opened |-> FALSE,
     out |-> "none", buf |-> 0]

\* pgrep -f ffmpeg: the pattern matches anywhere in the command line
MatchesFfmpeg(cmd) ==
    \E i \in 1..Len(cmd) : cmd[i] \in {"ffmpeg", "ffmpeg.txt"}

\* a scan that forgets to look for the directory
CmdRefsDirAny(cmd) == TRUE

\* str(recordings_dir) in cmdline
CmdRefsDir(cmd) ==
    \E i \in 1..(Len(cmd) - Len(RecordingsDir) + 1) :
        SubSeq(cmd, i, i + Len(RecordingsDir) - 1) = RecordingsDir

\* the pids pgrep prints, in increasing order
RECURSIVE PidSeq(_, _)
PidSeq(P, n) ==
    IF n > NEnv + MaxSpawn THEN <<>>
    ELSE IF P[n].st = "alive" /\ MatchesFfmpeg(P[n].cmd)
         THEN <<n>> \o PidSeq(P, n + 1)
         ELSE PidSeq(P, n + 1)

\* the loop over the pids: os.kill(pid, SIGKILL); killed += 1, where a kill
\* the caller has no permission for raises and is not counted
RECURSIVE ReapLoop(_, _, _)
ReapLoop(P, pids, killed) ==
    IF pids = <<>> THEN [procs |-> P, killed |-> killed]
    ELSE LET pid == Head(pids) IN
         IF CmdRefsDir(P[pid].cmd) /\ P[pid].own
         THEN ReapLoop([P EXCEPT ![pid].st = "dead", ![pid].by = "reaper"],
                       Tail(pids), killed + 1)
         ELSE ReapLoop(P, Tail(pids), killed)

\* a start() that skips the scan
KillOrphansNone(P) == [procs |-> P, killed |-> 0]

\* _kill_orphaned_ffmpeg_processes
KillOrphans(P) == ReapLoop(P, PidSeq(P, 1), 0)

\* ------------------------------------------------------------------- tasks
\* no geometry query yet
NoGeom == [st |-> "none"]

\* no helper called yet
NoCall == [fn |-> "none", st |-> "none"]

\* no child started
NoMux == [alive |-> FALSE]

NoTask ==
    [op |-> "none", pc |-> "idle", i |-> 0, title |-> FALSE, file |-> 0,
     scanned |-> FALSE, killed |-> 0, killedLive |-> FALSE, recAtCall |-> 0,
     spawned |-> 0, stopped |-> FALSE, rungs |-> <<>>, waits |-> 0,
     res |-> "", idle |-> FALSE, health |-> "", cur |-> 0, prev |-> -1,
     dur |-> 0, size |-> 0, unlinked |-> FALSE]

Done(rec, r) == [rec EXCEPT !.pc = "done", !.res = r]

\* the four session fields are None
SessionCleared ==
    /\ recording_process = 0
    /\ recording_path = 0
    /\ recording_start_time = 0
    /\ recording_log_file = 0

\* process is not None and process.poll() is None
IsRecordingIn(P) == recording_process # 0 /\ P[recording_process].st = "alive"
IsRecording == IsRecordingIn(procs)

\* the session is past its grace period: the start() that spawned the
\* process the controller holds has returned
Recording ==
    /\ IsRecording
    /\ \A u \in Tasks : ~(tasks[u].op = "start" /\ tasks[u].pc = "grace"
                           /\ tasks[u].spawned = recording_process)

FreeSlot(t) == tasks[t].op = "none" /\ \A u \in Tasks : u < t => tasks[u].op # "none"

FreePids == {p \in CtlPids : procs[p].st = "none"}
FreeLogs == {l \in Logs : logs[l] = "none"}
Min(S) == CHOOSE x \in S : \A y \in S : x <= y

\* start calls that may still spawn
PreSpawn == {t \in Tasks : tasks[t].op = "start"
                           /\ tasks[t].pc \in {"reap_wait", "focus_wait"}}

Init ==
    /\ recording_process = 0
    /\ recording_path = 0
    /\ recording_start_time = 0
    /\ recording_log_file = 0
    /\ recording_last_size = 0
    /\ procs = [p \in Pids |-> IF p \in EnvPids THEN Orphan ELSE NoProc]
    /\ logs = [l \in Logs |-> "none"]
    /\ files = [f \in Files |-> -1]
    /\ tasks = [t \in Tasks |-> NoTask]
    /\ lastObs = -1
    /\ now = 1
    /\ geom = NoGeom
    /\ helper = NoCall
    /\ mux = NoMux

\* ------------------------------------------------------------------ start
\* a call returns (or raises) without touching the session
Fin(t, rec, r, P) ==
    /\ tasks' = [tasks EXCEPT ![t] = [Done(rec, r) EXCEPT !.idle = SessionCleared]]
    /\ procs' = P
    /\ UNCHANGED <<ctl, logs, files, lastObs, now, geom, helper, mux>>

\* a start that leaves the start time as it was
StampKept == recording_start_time

\* _recording_start_time = datetime.now()
StampNow == now

\* capture arguments, command, log file, Popen, up to the grace-period sleep.
\* The capture arguments come back with an error, or the window helper
\* raises for a missing dependency, or open() raises, or Popen raises after
\* the log was opened, or the process is spawned.
StartSpawn(t, rec, P) ==
    \E out \in {"ok", "capture", "deps", "log", "spawn"} :
        IF out = "capture" THEN Fin(t, rec, "CaptureError", P)
        ELSE IF out \in {"deps", "log"} THEN Fin(t, rec, "raised", P)
        ELSE IF out = "spawn"
        THEN LET lg == Min(FreeLogs) IN
             /\ recording_log_file' = lg
             /\ logs' = [logs EXCEPT ![lg] = "open"]
             /\ procs' = P
             /\ tasks' = [tasks EXCEPT ![t] = Done(rec, "raised")]
             /\ UNCHANGED <<recording_process, recording_path,
                            recording_start_time, recording_last_size,
                            files, lastObs, now, geom, helper, mux>>
        ELSE LET pid == Min(FreePids)
                 lg  == Min(FreeLogs) IN
             /\ recording_log_file' = lg
             /\ logs' = [logs EXCEPT ![lg] = "open"]
             /\ recording_process' = pid
             /\ procs' = [P EXCEPT ![pid] =
                              [st |-> "alive", cmd |-> CaptureCmd(rec.file),
                               own |-> TRUE, by |-> "", opened |-> FALSE,
                               out |-> "log", buf |-> 0]]
             /\ recording_path' = rec.file
             /\ recording_start_time' = StampNow
             /\ recording_last_size' = 0
             /\ lastObs' = -1
             /\ tasks' = [tasks EXCEPT ![t] =
                              [rec EXCEPT !.pc = "grace", !.spawned = pid]]
             /\ UNCHANGED <<files, now, geom, helper, mux>>

\* the guard, the window lookup, ffmpeg lookup and focus_window
Guard(P) == IsRecordingIn(P)

StartBackend(t, rec, P) ==
    IF ~rec.title THEN Fin(t, rec, "TitleRequired", P)
    ELSE IF Guard(P) THEN Fin(t, rec, "AlreadyRecording", P)
    ELSE \E win \in BOOLEAN, ffm \in BOOLEAN, focus \in BOOLEAN :
            IF ~win THEN Fin(t, rec, "WindowNotFound", P)
            ELSE IF ~ffm THEN Fin(t, rec, "raised", P)
            ELSE IF focus
                 THEN /\ tasks' = [tasks EXCEPT ![t] = [rec EXCEPT !.pc = "focus_wait"]]
                      /\ procs' = P
                      /\ UNCHANGED <<ctl, logs, files, lastObs, now, geom, helper, mux>>
                 ELSE StartSpawn(t, rec, P)

\* the tool: orphan scan first, a sleep when something was killed
StartCall(t) ==
    /\ FreeSlot(t)
    /\ Cardinality(FreePids) > Cardinality(PreSpawn)
    /\ Cardinality(FreeLogs) > Cardinality(PreSpawn)
    /\ \E title \in BOOLEAN, f \in Files :
        LET r   == KillOrphans(procs)
            rec == [NoTask EXCEPT !.op = "start", !.title = title, !.file = f,
                                  !.scanned = TRUE, !.killed = r.killed,
                                  !.recAtCall = IF Recording
                                                THEN recording_process ELSE 0,
                                  !.killedLive = (Recording /\
                                      r.procs[recording_process].st # "alive")]
        IN IF r.killed > 0
           THEN /\ tasks' = [tasks EXCEPT ![t] = [rec EXCEPT !.pc = "reap_wait"]]
                /\ procs' = r.procs
                /\ UNCHANGED <<ctl, logs, files, lastObs, now, geom, helper, mux>>
           ELSE StartBackend(t, rec, r.procs)

StartAfterReap(t) ==
    /\ tasks[t].op = "start" /\ tasks[t].pc = "reap_wait"
    /\ StartBackend(t, tasks[t], procs)

StartAfterFocus(t) ==
    /\ tasks[t].op = "start" /\ tasks[t].pc = "focus_wait"
    /\ StartSpawn(t, tasks[t], procs)

\* after the grace period: poll the process the controller now holds
StartGrace(t) ==
    /\ tasks[t].op = "start" /\ tasks[t].pc = "grace"
    /\ IF recording_process = 0 \/ (procs[recording_process].st # "alive"
                                    /\ recording_log_file = 0)
       THEN Fin(t, tasks[t], "raised", procs)
       ELSE IF procs[recording_process].st # "alive"
       THEN /\ logs' = [logs EXCEPT ![recording_log_file] = "closed"]
            /\ recording_process' = 0
            /\ recording_path' = 0
            /\ recording_start_time' = 0
            /\ recording_log_file' = 0
            /\ tasks' = [tasks EXCEPT ![t] =
                   [Done(tasks[t], "SpawnFailure") EXCEPT !.idle = TRUE]]
            /\ UNCHANGED <<recording_last_size, procs, files, lastObs, now, geom, helper, mux>>
       ELSE Fin(t, tasks[t], "Started", procs)

Return(t) ==
    /\ tasks[t].pc = "done"
    /\ tasks' = [tasks EXCEPT ![t] = NoTask]
    /\ UNCHANGED <<ctl, procs, logs, files, lastObs, now, geom, helper, mux>>

\* ------------------------------------------------------------ environment
\* a capture process ends on its own, or is killed from outside
ProcExit(p) ==
    /\ p \in CtlPids /\ procs[p].st = "alive"
    /\ procs' = [procs EXCEPT ![p].st = "dead", ![p].by = "self"]
    /\ UNCHANGED <<ctl, logs, files, tasks, lastObs, now, geom, helper, mux>>

\* ffmpeg -y creates or truncates its output file, then appends to it
FileOpen(p) ==
    /\ p \in CtlPids /\ procs[p].st = "alive" /\ ~procs[p].opened
    /\ \E f \in Files :
        /\ procs[p].cmd = CaptureCmd(f)
        /\ files' = [files EXCEPT ![f] = 0]
    /\ procs' = [procs EXCEPT ![p].opened = TRUE]
    /\ UNCHANGED <<ctl, logs, tasks, lastObs, now, geom, helper, mux>>

FileGrow(p) ==
    /\ p \in CtlPids /\ procs[p].st = "alive" /\ procs[p].opened
    /\ \E f \in Files :
        /\ procs[p].cmd = CaptureCmd(f)
        /\ files[f] < MaxSize
        /\ files' = [files EXCEPT ![f] = files[f] + 1]
    /\ UNCHANGED <<ctl, procs, logs, tasks, lastObs, now, geom, helper, mux>>

\* ------------------------------------------------------------------- stop
\* (now - start_time).total_seconds() if start_time else 0
Elapsed(start) == IF start # 0 THEN now - start ELSE 0

\* output_path.stat().st_size if output_path and output_path.exists() else 0
SizeOf(f) == IF f # 0 /\ files[f] >= 0 THEN files[f] ELSE 0

\* a log that is removed whatever the size of the output
LogRedundantAlways(size) == size >= 0

\* file_size > 0: the recording succeeded and its log is of no use
LogRedundant(size) == size > 0

\* the log handle is closed, the five session fields are reset, the size of
\* the output file is read, and the log is removed when the handle gave its
\* path and the output is not empty
StopFinish(t, rec, P) ==
    /\ logs' = IF recording_log_file # 0
               THEN [logs EXCEPT ![recording_log_file] = "closed"]
               ELSE logs
    /\ recording_process' = 0
    /\ recording_path' = 0
    /\ recording_start_time' = 0
    /\ recording_log_file' = 0
    /\ recording_last_size' = 0
    /\ lastObs' = -1
    /\ procs' = P
    /\ tasks' = [tasks EXCEPT ![t] =
           [Done(rec, "Stopped") EXCEPT
                !.idle = TRUE, !.size = SizeOf(rec.file),
                !.unlinked = recording_log_file # 0
                                 /\ LogRedundant(SizeOf(rec.file))]]
    /\ UNCHANGED <<files, now, geom, helper, mux>>

\* Popen.send_signal polls first: a signal goes out only to a live process
Deliver(rec, sig) ==
    IF procs[recording_process].st = "alive"
    THEN [rec EXCEPT !.rungs = Append(rec.rungs, sig)]
    ELSE rec

\* the two guards, then 'q' on stdin; a process that went away since the
\* guard's poll breaks the pipe, and the interrupt follows at once
StopCall(t) ==
    /\ FreeSlot(t)
    /\ LET rec == [NoTask EXCEPT !.op = "stop", !.file = recording_path,
                                  !.dur = Elapsed(recording_start_time)] IN
       IF recording_process = 0 THEN Fin(t, [rec EXCEPT !.dur = 0], "NoRecording", procs)
       ELSE IF procs[recording_process].st # "alive"
       THEN Fin(t, [rec EXCEPT !.dur = 0], "AlreadyStopped", procs)
       ELSE \E gone \in BOOLEAN :
            /\ tasks' = [tasks EXCEPT ![t] =
                   IF gone THEN [rec EXCEPT !.pc = "wait_int"]
                   ELSE [rec EXCEPT !.pc = "wait_q", !.rungs = <<"q">>]]
            /\ procs' = IF gone
                        THEN [procs EXCEPT ![recording_process].st = "dead",
                                           ![recording_process].by = "self"]
                        ELSE procs
            /\ UNCHANGED <<ctl, logs, files, lastObs, now, geom, helper, mux>>

\* a wait loop that gives up after its first poll
PollBoundShort(pc) == 1

PollBound(pc) ==
    IF pc = "wait_q" THEN QuitPolls
    ELSE IF pc = "wait_int" THEN IntPolls ELSE TermPolls

NextRung(pc) ==
    IF pc = "wait_q" THEN "int" ELSE IF pc = "wait_int" THEN "term" ELSE "kill"

NextWait(pc) ==
    IF pc = "wait_q" THEN "wait_int"
    ELSE IF pc = "wait_int" THEN "wait_term" ELSE "wait_kill"

\* one turn of a wait loop: the sleep is over, poll; when the loop is used up
\* the next rung goes out
StopPoll(t) ==
    /\ tasks[t].op = "stop"
    /\ tasks[t].pc \in {"wait_q", "wait_int", "wait_term"}
    /\ LET rec == [tasks[t] EXCEPT !.waits = @ + 1] IN
       IF recording_process = 0 THEN Fin(t, rec, "raised", procs)
       ELSE IF procs[recording_process].st # "alive"
       THEN StopFinish(t, [rec EXCEPT !.stopped = TRUE], procs)
       ELSE IF rec.i + 1 < PollBound(rec.pc)
       THEN /\ tasks' = [tasks EXCEPT ![t] = [rec EXCEPT !.i = @ + 1]]
            /\ UNCHANGED <<ctl, procs, logs, files, lastObs, now, geom, helper, mux>>
       ELSE /\ tasks' = [tasks EXCEPT ![t] =
                   [Deliver(rec, NextRung(rec.pc)) EXCEPT
                        !.pc = NextWait(rec.pc), !.i = 0]]
            /\ procs' = IF rec.pc = "wait_term"
                        THEN [procs EXCEPT ![recording_process].st = "dead",
                                           ![recording_process].by = "stop"]
                        ELSE procs
            /\ UNCHANGED <<ctl, logs, files, lastObs, now, geom, helper, mux>>

\* after the sleep that follows the forced kill
StopAfterKill(t) ==
    /\ tasks[t].op = "stop" /\ tasks[t].pc = "wait_kill"
    /\ StopFinish(t, [tasks[t] EXCEPT !.waits = @ + 1], procs)

\* ----------------------------------------------------------------- status
Growing(last, cur) == ~(last > 0 /\ cur <= last)

Status(t) ==
    /\ FreeSlot(t)
    /\ LET rec == [NoTask EXCEPT !.op = "status"] IN
       IF ~IsRecording THEN Fin(t, rec, "NoRecording", procs)
       ELSE LET exists == recording_path # 0 /\ files[recording_path] >= 0
                cur    == IF exists THEN files[recording_path] ELSE 0
                grows  == IF exists THEN Growing(recording_last_size, cur)
                          ELSE TRUE
            IN /\ recording_last_size' = IF exists THEN cur
                                         ELSE recording_last_size
               /\ lastObs' = cur
               /\ tasks' = [tasks EXCEPT ![t] =
                      [Done(rec, IF recording_start_time = 0 THEN "raised"
                                 ELSE "InProgress") EXCEPT
                          !.health = IF grows THEN "growing" ELSE "stalled",
                          !.cur = cur, !.prev = lastObs]]
               /\ UNCHANGED <<recording_process, recording_path,
                              recording_start_time, recording_log_file,
                              procs, logs, files, now, geom, helper, mux>>

\* the local clock moves on, or is set back (a correction, the end of
\* daylight saving time)
ClockStep ==
    /\ \E r \in {now - 1, now + 1} : r \in 1..MaxClock /\ now' = r
    /\ UNCHANGED <<ctl, procs, logs, files, tasks, lastObs, geom, helper, mux>>

\* ---------------------------------------------------------- specification
Next ==
    \/ \E t \in Tasks : StartCall(t)
    \/ \E t \in Tasks : StartAfterReap(t)
    \/ \E t \in Tasks : StartAfterFocus(t)
    \/ \E t \in Tasks : StartGrace(t)
    \/ \E t \in Tasks : StopCall(t)
    \/ \E t \in Tasks : StopPoll(t)
    \/ \E t \in Tasks : StopAfterKill(t)
    \/ \E t \in Tasks : Status(t)
    \/ \E t \in Tasks : Return(t)
    \/ \E p \in Pids : ProcExit(p)
    \/ \E p \in Pids : FileOpen(p)
    \/ \E p \in Pids : FileGrow(p)

Spec == Init /\ [][Next]_vars

\* ------------------------------------- one caller at a time, a moving clock
\* The caller waits for each reply before the next call; the capture
\* process and the clock move on their own.
NextSolo ==
    \/ StartCall(1)
    \/ StartAfterReap(1)
    \/ StartAfterFocus(1)
    \/ StartGrace(1)
    \/ StopCall(1)
    \/ StopPoll(1)
    \/ StopAfterKill(1)
    \/ Status(1)
    \/ Return(1)
    \/ \E p \in Pids : ProcExit(p)
    \/ \E p \in Pids : FileOpen(p)
    \/ \E p \in Pids : FileGrow(p)
    \/ ClockStep

SpecSolo == Init /\ [][NextSolo]_vars

\* --------------------------------------------- the orphan scan on its own
\* every process table of the bound: each pid free or running one of the
\* command lines, as the caller's own process or another user's
AllCmds == EnvCmds \cup {CaptureCmd(f) : f \in Files}

InitReaper ==
    /\ recording_process = 0
    /\ recording_path = 0
    /\ recording_start_time = 0
    /\ recording_log_file = 0
    /\ recording_last_size = 0
    /\ procs \in [Pids -> {NoProc} \cup
                          [st : {"alive"}, cmd : AllCmds, own : BOOLEAN,
                           by : {""}, opened : {FALSE}, out : {"log"},
                           buf : {0}]]
    /\ logs = [l \in Logs |-> "none"]
    /\ files = [f \in Files |-> -1]
    /\ tasks = [t \in Tasks |-> NoTask]
    /\ lastObs = -1
    /\ now = 1
    /\ geom = NoGeom
    /\ helper = NoCall
    /\ mux = NoMux

ReapOnce ==
    /\ tasks[1].op = "none"
    /\ LET r == KillOrphans(procs) IN
       /\ procs' = r.procs
       /\ tasks' = [tasks EXCEPT ![1] =
              [NoTask EXCEPT !.op = "reap", !.pc = "done", !.scanned = TRUE,
                             !.killed = r.killed]]
    /\ UNCHANGED <<ctl, logs, files, lastObs, now, geom, helper, mux>>

NextReaper == ReapOnce

SpecReaper == InitReaper /\ [][NextReaper]_vars

\* ------------------------------------------- the first server (getademo)
\* It keeps process, path and start time, writes no log, scans nothing and
\* stops with two blocking waits; call_tool turns an exception into a reply.
LegacyStartCall(t) ==
    /\ FreeSlot(t)
    /\ FreePids # {}
    /\ \E f \in Files, ffm \in BOOLEAN :
        LET rec == [NoTask EXCEPT !.op = "start", !.title = TRUE, !.file = f,
                                  !.recAtCall = IF Recording
                                                THEN recording_process ELSE 0]
            pid == Min(FreePids)
        IN IF IsRecording THEN Fin(t, rec, "AlreadyRecording", procs)
           ELSE IF ~ffm THEN Fin(t, rec, "Error", procs)
           ELSE /\ recording_process' = pid
                /\ procs' = [procs EXCEPT ![pid] =
                       [st |-> "alive", cmd |-> CaptureCmd(f), own |-> TRUE,
                        by |-> "", opened |-> FALSE, out |-> "pipe",
                        buf |-> 0]]
                /\ recording_path' = f
                /\ recording_start_time' = StampNow
                /\ tasks' = [tasks EXCEPT ![t] =
                       [rec EXCEPT !.pc = "grace", !.spawned = pid]]
                /\ UNCHANGED <<recording_log_file, recording_last_size,
                               logs, files, lastObs, now, geom, helper, mux>>

LegacyStartGrace(t) ==
    /\ tasks[t].op = "start" /\ tasks[t].pc = "grace"
    /\ IF recording_process = 0 THEN Fin(t, tasks[t], "Error", procs)
       ELSE IF procs[recording_process].st # "alive"
       THEN /\ recording_process' = 0
            /\ recording_path' = 0
            /\ recording_start_time' = 0
            /\ tasks' = [tasks EXCEPT ![t] =
                   [Done(tasks[t], "SpawnFailure") EXCEPT !.idle = TRUE]]
            /\ UNCHANGED <<recording_log_file, recording_last_size, procs,
                           logs, files, lastObs, now, geom, helper, mux>>
       ELSE Fin(t, tasks[t], "Started", procs)

\* 'q' and wait(timeout=10); on any exception terminate() and
\* wait(timeout=5), whose TimeoutExpired leaves the function
LegacyStopCall(t) ==
    /\ FreeSlot(t)
    /\ LET rec == [NoTask EXCEPT !.op = "stop", !.file = recording_path] IN
       IF recording_process = 0 THEN Fin(t, rec, "NoRecording", procs)
       ELSE IF procs[recording_process].st # "alive"
       THEN Fin(t, rec, "AlreadyStopped", procs)
       ELSE \E answer \in {"quits", "terminates", "ignores"} :
            IF answer = "ignores"
            THEN Fin(t, [rec EXCEPT !.rungs = <<"q", "term">>, !.waits = 2],
                     "Error", procs)
            ELSE /\ procs' = [procs EXCEPT ![recording_process].st = "dead",
                                           ![recording_process].by = "stop"]
                 /\ recording_process' = 0
                 /\ recording_path' = 0
                 /\ recording_start_time' = 0
                 /\ tasks' = [tasks EXCEPT ![t] =
                        [Done(rec, "Stopped") EXCEPT
                            !.idle = TRUE,
                            !.rungs = IF answer = "quits" THEN <<"q">>
                                      ELSE <<"q", "term">>,
                            !.waits = IF answer = "quits" THEN 1 ELSE 2]]
                 /\ UNCHANGED <<recording_log_file, recording_last_size,
                                logs, files, lastObs, now, geom, helper, mux>>

\* the capture writes a block of diagnostics to its stderr; a pipe that
\* nobody reads takes PipeCap blocks, and the next write does not return
ProcWrite(p) ==
    /\ p \in CtlPids /\ procs[p].st = "alive"
    /\ procs[p].out = "pipe" /\ procs[p].buf < PipeCap
    /\ procs' = [procs EXCEPT ![p].buf = procs[p].buf + 1]
    /\ UNCHANGED <<ctl, logs, files, tasks, lastObs, now, geom, helper, mux>>

LegacyStatus(t) ==
    /\ FreeSlot(t)
    /\ Fin(t, [NoTask EXCEPT !.op = "status"],
           IF IsRecording THEN "InProgress" ELSE "NoRecording", procs)

NextLegacy ==
    \/ \E t \in Tasks : LegacyStartCall(t)
    \/ \E t \in Tasks : LegacyStartGrace(t)
    \/ \E t \in Tasks : LegacyStopCall(t)
    \/ \E t \in Tasks : LegacyStatus(t)
    \/ \E t \in Tasks : Return(t)
    \/ \E p \in Pids : ProcExit(p)
    \/ \E p \in Pids : ProcWrite(p)

SpecLegacy == Init /\ [][NextLegacy]_vars

\* ------------------------------------------------------- capture geometry
\* A window is its bounds [x, y, width, height] in logical coordinates; a
\* screen is [index, x, y, width, height, scale], index counting from 1 in
\* enumeration order.
Max2(a, b) == IF a >= b THEN a ELSE b
Min2(a, b) == IF a <= b THEN a ELSE b

OverlapLeft(b, s)   == Max2(b.x, s.x)
OverlapRight(b, s)  == Min2(b.x + b.width, s.x + s.width)
OverlapTop(b, s)    == Max2(b.y, s.y)
OverlapBottom(b, s) == Min2(b.y + b.height, s.y + s.height)

\* overlap_right > overlap_left and overlap_bottom > overlap_top
Overlaps(b, s) ==
    OverlapRight(b, s) > OverlapLeft(b, s) /\ OverlapBottom(b, s) > OverlapTop(b, s)

OverlapArea(b, s) ==
    (OverlapRight(b, s) - OverlapLeft(b, s)) * (OverlapBottom(b, s) - OverlapTop(b, s))

\* a loop that keeps the first screen it finds
BetterFirst(area, best) == best = 0

\* overlap_area > best_overlap
Better(area, best) == area > best

\* the loop over the screens; best is 0 for None, else a position
RECURSIVE FindLoop(_, _, _, _, _)
FindLoop(b, screens, k, best, bestOverlap) ==
    IF k > Len(screens) THEN best
    ELSE IF Overlaps(b, screens[k]) /\ Better(OverlapArea(b, screens[k]), bestOverlap)
         THEN FindLoop(b, screens, k + 1, k, OverlapArea(b, screens[k]))
         ELSE FindLoop(b, screens, k + 1, best, bestOverlap)

\* an origin that is taken as it is
ClampNone(v) == v

\* max(0, v)
Clamp(v) == Max2(0, v)

\* a resolver that returns the window's origin on the desktop
FindScreenAbsolute(b, screens) ==
    LET best == FindLoop(b, screens, 1, 0, 0) IN
    IF best # 0
    THEN [index |-> screens[best].index, x |-> Clamp(b.x), y |-> Clamp(b.y),
          scale |-> screens[best].scale]
    ELSE [index |-> 1, x |-> Clamp(b.x), y |-> Clamp(b.y), scale |-> DefaultScale]

\* _find_screen_for_window: (screen_index, relative_x, relative_y, scale)
FindScreenForWindow(b, screens) ==
    LET best == FindLoop(b, screens, 1, 0, 0) IN
    IF best # 0
    THEN [index |-> screens[best].index,
          x     |-> Clamp(b.x - screens[best].x),
          y     |-> Clamp(b.y - screens[best].y),
          scale |-> screens[best].scale]
    ELSE [index |-> 1, x |-> Clamp(b.x), y |-> Clamp(b.y), scale |-> DefaultScale]

\* a size that is taken as it is
EvenKeep(v) == v

\* v if v % 2 == 0 else v - 1
EvenDown(v) == IF v % 2 = 0 THEN v ELSE v - 1

\* v if v % 2 == 0 else v + 1
EvenUp(v) == IF v % 2 = 0 THEN v ELSE v + 1

\* _get_macos_capture_args: the device index and crop=width:height:x:y
MacosCaptureArgs(b, screens) ==
    LET r == FindScreenForWindow(b, screens) IN
    [index  |-> r.index,
     width  |-> EvenDown(b.width * r.scale),
     height |-> EvenDown(b.height * r.scale),
     x      |-> EvenUp(r.x * r.scale),
     y      |-> EvenUp(r.y * r.scale)]

Windows ==
    [x : -1..MaxCoord, y : -1..1, width : 1..MaxCoord, height : 1..2]

ScreenShapes ==
    [x : {0, 2}, y : {0}, width : {2, MaxCoord}, height : 1..2, scale : 1..MaxScale]

\* the screens as enumerated: the k-th gets index k
Topologies ==
    UNION { { [k \in 1..n |->
                 [index |-> k, x |-> sh[k].x, y |-> sh[k].y,
                  width |-> sh[k].width, height |-> sh[k].height,
                  scale |-> sh[k].scale]] : sh \in [1..n -> ScreenShapes] }
            : n \in 1..MaxScreens }

\* two screens side by side, the left one a high-density display, and a
\* window on the right one
ScenarioA ==
    [st |-> "query",
     b |-> [x |-> 1500, y |-> 50, width |-> 800, height |-> 600],
     screens |-> << [index |-> 1, x |-> 0, y |-> 0, width |-> 1440,
                     height |-> 900, scale |-> 2],
                    [index |-> 2, x |-> 1440, y |-> 0, width |-> 1920,
                     height |-> 1080, scale |-> 1] >>]

InitGeom ==
    /\ recording_process = 0
    /\ recording_path = 0
    /\ recording_start_time = 0
    /\ recording_log_file = 0
    /\ recording_last_size = 0
    /\ procs = [p \in Pids |-> NoProc]
    /\ logs = [l \in Logs |-> "none"]
    /\ files = [f \in Files |-> -1]
    /\ tasks = [t \in Tasks |-> NoTask]
    /\ lastObs = -1
    /\ now = 1
    /\ geom \in [st : {"query"}, b : Windows, screens : Topologies]
               \cup {ScenarioA}
    /\ helper = NoCall
    /\ mux = NoMux

\* the capture arguments of one window on one topology
Resolve ==
    /\ geom.st = "query"
    /\ geom' = [st |-> "done", b |-> geom.b, screens |-> geom.screens,
                found |-> FindScreenForWindow(geom.b, geom.screens),
                crop |-> MacosCaptureArgs(geom.b, geom.screens)]
    /\ UNCHANGED <<ctl, procs, logs, files, tasks, lastObs, now, helper, mux>>

NextGeom == Resolve

SpecGeom == InitGeom /\ [][NextGeom]_vars

\* ---------------------------------------------- display and window helpers
\* sys.platform
Platforms == {"darwin", "linux", "win32", "other"}

RECURSIVE SeqsUpTo(_, _)
SeqsUpTo(S, n) ==
    IF n = 0 THEN {<<>>}
    ELSE LET shorter == SeqsUpTo(S, n - 1) IN
         shorter \cup { Append(q, e) : q \in {r \in shorter : Len(r) = n - 1}, e \in S }

\* a run of a script: an exception (osascript missing, timeout), or the
\* lines of its output
Failed == [ok |-> FALSE, lines |-> <<>>]
Lines(S, n) == [ok : {TRUE}, lines : SeqsUpTo(S, n)]

\* the enumeration of the screens; a line of its output is empty, has fewer
\* than four fields, four or five integer fields, or fields that are no
\* integers
ScriptRuns ==
    {Failed} \cup Lines({"blank", "short", "four", "five", "bad"}, MaxLines)

\* str.strip() of the output: no empty line at either end
RECURSIVE Strip(_)
Strip(lines) ==
    IF lines = <<>> THEN lines
    ELSE IF Head(lines) = "blank" THEN Strip(Tail(lines))
    ELSE IF lines[Len(lines)] = "blank" THEN Strip(SubSeq(lines, 1, Len(lines) - 1))
    ELSE lines

DefaultScreen ==
    [index |-> 1, x |-> 0, y |-> 0, width |-> 1920, height |-> 1080, scale |-> 2]

\* the loop over enumerate(lines): empty and short lines are skipped but
\* counted; the scale of a screen is the fifth field, 2 without one
RECURSIVE ParseLines(_, _)
ParseLines(lines, i) ==
    IF i > Len(lines) THEN <<>>
    ELSE IF lines[i] \in {"four", "five"}
         THEN <<[index |-> i, x |-> 0, y |-> 0, width |-> 2, height |-> 1,
                 scale |-> IF lines[i] = "five" THEN 1 ELSE 2]>>
                  \o ParseLines(lines, i + 1)
         ELSE ParseLines(lines, i + 1)

\* _get_macos_screens: int() of a field that is no integer raises, and every
\* exception gives the default, as does an empty list
GetMacosScreens(run) ==
    LET lines == Strip(run.lines)
        screens == ParseLines(lines, 1) IN
    IF ~run.ok \/ (\E i \in 1..Len(lines) : lines[i] = "bad")
    THEN <<DefaultScreen>>
    ELSE IF screens # <<>> THEN screens ELSE <<DefaultScreen>>

\* list_screens
ListScreensOf(platform, run) ==
    IF platform = "darwin" THEN GetMacosScreens(run) ELSE <<>>

ListScreens ==
    /\ helper.fn = "list_screens" /\ helper.st = "call"
    /\ helper' = [fn |-> "list_screens", st |-> "done",
                  platform |-> helper.platform, run |-> helper.run,
                  res |-> ListScreensOf(helper.platform, helper.run)]
    /\ UNCHANGED <<ctl, procs, logs, files, tasks, lastObs, now, geom, mux>>

\* A string is a sequence of units of text; a unit is written in lower case
\* or with a capital.
Fold(u) ==
    CASE u = "Chrome" -> "chrome"
      [] u = "Google" -> "google"
      [] u = "Doc"    -> "doc"
      [] u = "Edit"   -> "edit"
      [] OTHER        -> u

\* pattern.search(text) of a literal pattern compiled with re.IGNORECASE
Search(pat, text) ==
    \E off \in 0..(Len(text) - Len(pat)) :
        \A i \in 1..Len(pat) : Fold(text[off + i]) = Fold(pat[i])

ChromeApp == <<"Google", "Chrome">>
AppNames == {ChromeApp, <<"Edit">>}

\* a line of a strategy's output: the application, the title (or none) and
\* the bounds: none that parse, both sides under 50, or larger
RawWindows ==
    [app : AppNames, title : {<<>>, <<"Doc">>}, size : {"none", "tiny", "big"}]

\* WindowInfo(title=title if title else app_name, bounds=bounds, app_name=app_name)
WindowOf(raw) ==
    [app |-> raw.app, title |-> IF raw.title # <<>> THEN raw.title ELSE raw.app,
     size |-> raw.size]

RECURSIVE MapWindows(_)
MapWindows(s) ==
    IF s = <<>> THEN <<>> ELSE <<WindowOf(Head(s))>> \o MapWindows(Tail(s))

\* _macos_list_windows_cg: [] on any exception; a window whose bounds are
\* under 50 on both sides is skipped
CgWindows(run) ==
    IF ~run.ok THEN <<>>
    ELSE MapWindows(SelectSeq(run.lines, LAMBDA raw : raw.size # "tiny"))

\* _macos_list_chrome_windows: [] on any exception, only titled windows
ChromeWindows(run) ==
    IF ~run.ok THEN <<>>
    ELSE MapWindows(SelectSeq(run.lines, LAMBDA raw : raw.title # <<>>))

\* _macos_list_windows_system_events: raises, or every line
SeWindows(run) == IF ~run.ok THEN <<>> ELSE MapWindows(run.lines)

\* _macos_list_windows_fallback: [] on any exception, one entry for each
\* line that names an application
RECURSIVE FallbackLoop(_)
FallbackLoop(lines) ==
    IF lines = <<>> THEN <<>>
    ELSE IF Head(lines) # <<>>
         THEN <<[app |-> Head(lines), title |-> Head(lines), size |-> "none"]>>
                  \o FallbackLoop(Tail(lines))
         ELSE FallbackLoop(Tail(lines))

FallbackWindows(run) == IF ~run.ok THEN <<>> ELSE FallbackLoop(run.lines)

\* methods 1 and 3: a window is appended when its key (app_name, title) was
\* not seen
RECURSIVE MergeByKey(_, _, _)
MergeByKey(all, seen, wins) ==
    IF wins = <<>> THEN [all |-> all, seen |-> seen]
    ELSE LET key == <<Head(wins).app, Head(wins).title>> IN
         IF key \notin seen
         THEN MergeByKey(Append(all, Head(wins)), seen \cup {key}, Tail(wins))
         ELSE MergeByKey(all, seen, Tail(wins))

\* method 2: a Chrome window is appended when no window in the list has its
\* title and "Chrome" in its app_name
RECURSIVE MergeChrome(_, _)
MergeChrome(all, wins) ==
    IF wins = <<>> THEN all
    ELSE IF ~\E i \in 1..Len(all) :
                /\ all[i].title = Head(wins).title
                /\ \E k \in 1..Len(all[i].app) : all[i].app[k] = "Chrome"
         THEN MergeChrome(Append(all, Head(wins)), Tail(wins))
         ELSE MergeChrome(all, Tail(wins))

Unasked == [ok |-> FALSE, lines |-> <<"unasked">>]

\* _macos_list_windows
MacosListWindows(env) ==
    LET m1 == MergeByKey(<<>>, {}, CgWindows(env.cg))
        a2 == MergeChrome(m1.all, ChromeWindows(env.chrome))
        a3 == IF a2 = <<>>
              THEN MergeByKey(a2, m1.seen, SeWindows(env.se)).all
              ELSE a2
    IN  IF a3 = <<>> THEN FallbackWindows(env.fb) ELSE a3

\* what the strategies answer; a strategy that is not reached is not asked
ListEnvs ==
    LET WinRuns == {Failed} \cup Lines(RawWindows, MaxWins)
        ChromeRuns ==
            {Failed} \cup Lines({r \in RawWindows : r.app = ChromeApp}, 1)
        FbRuns == {Failed} \cup Lines(AppNames \cup {<<>>}, MaxWins)
        NothingYet(e) ==
            MergeChrome(MergeByKey(<<>>, {}, CgWindows(e.cg)).all,
                        ChromeWindows(e.chrome)) = <<>>
        FirstTwo == [cg : WinRuns, chrome : ChromeRuns]
    IN
    { [cg |-> e.cg, chrome |-> e.chrome, se |-> Unasked, fb |-> Unasked] :
        e \in {f \in FirstTwo : ~NothingYet(f)} }
    \cup
    { [cg |-> e.cg, chrome |-> e.chrome, se |-> s, fb |-> Unasked] :
        e \in {f \in FirstTwo : NothingYet(f)},
        s \in {r \in WinRuns : SeWindows(r) # <<>>} }
    \cup
    { [cg |-> e.cg, chrome |-> e.chrome, se |-> s, fb |-> b] :
        e \in {f \in FirstTwo : NothingYet(f)},
        s \in {r \in WinRuns : SeWindows(r) = <<>>},
        b \in FbRuns }

\* list_windows on macOS
ListWindows ==
    /\ helper.fn = "list_windows" /\ helper.st = "call"
    /\ helper' = [fn |-> "list_windows", st |-> "done", env |-> helper.env,
                  res |-> MacosListWindows(helper.env)]
    /\ UNCHANGED <<ctl, procs, logs, files, tasks, lastObs, now, geom, mux>>

\* a matcher that looks at the title alone on every platform
MatchesTitle(platform, pat, win) == Search(pat, win.title)

\* the test of the loop of _macos_get_window_bounds, and the one of
\* _linux_get_window_bounds
Matches(platform, pat, win) ==
    IF platform = "darwin"
    THEN Search(pat, win.title) \/ (win.app # <<>> /\ Search(pat, win.app))
    ELSE Search(pat, win.title)

\* the position of the first window of the list that the loop stops at, 0
\* when it runs to the end
RECURSIVE FirstMatch(_, _, _, _)
FirstMatch(platform, pat, wins, k) ==
    IF k > Len(wins) THEN 0
    ELSE IF Matches(platform, pat, wins[k]) THEN k
    ELSE FirstMatch(platform, pat, wins, k + 1)

\* _linux_list_windows after _linux_check_deps: a window of wmctrl has a
\* title and bounds, and no app_name
LinuxListWindows(run) ==
    [k \in 1..Len(run.lines) |->
        [app |-> <<>>, title |-> run.lines[k].title, size |-> run.lines[k].size]]

\* the list that get_window_bounds searches
ListedWindows(platform, env) ==
    IF platform = "darwin" THEN MacosListWindows(env) ELSE LinuxListWindows(env.wm)

\* get_window_bounds: the bounds of the first match, or what it raises
GetWindowBounds(platform, env, pat) ==
    IF platform = "linux" /\ ~env.deps THEN [kind |-> "DependencyMissingError"]
    ELSE IF platform = "linux" /\ ~env.wm.ok THEN [kind |-> "WindowManagerError"]
    ELSE LET wins == ListedWindows(platform, env)
             k == FirstMatch(platform, pat, wins, 1) IN
         IF k = 0 THEN [kind |-> "WindowNotFoundError"]
         ELSE IF wins[k].size # "none"
              THEN [kind |-> "bounds", pos |-> k, size |-> wins[k].size]
              ELSE [kind |-> "WindowManagerError"]

\* what the dependency check, xdotool and wmctrl answer
LinuxEnvs ==
    [deps : BOOLEAN,
     xid : BOOLEAN,
     wm : {Failed} \cup Lines([title : {<<"Doc">>, <<"Edit">>}, size : {"tiny", "big"}],
                              MaxWins)]

Patterns == {<<"doc">>, <<"edit">>, <<"google", "chrome">>}

FindWindow ==
    /\ helper.fn = "get_window_bounds" /\ helper.st = "call"
    /\ helper' = [fn |-> "get_window_bounds", st |-> "done",
                  platform |-> helper.platform, env |-> helper.env,
                  pat |-> helper.pat,
                  wins |-> IF helper.platform = "linux" /\ ~helper.env.wm.ok
                           THEN <<>>
                           ELSE ListedWindows(helper.platform, helper.env),
                  res |-> GetWindowBounds(helper.platform, helper.env, helper.pat)]
    /\ UNCHANGED <<ctl, procs, logs, files, tasks, lastObs, now, geom, mux>>

\* the returned tuple (args, filter, error): the arguments and whether the
\* error is set
Answer(args, err) == [kind |-> "returned", args |-> args, err |-> err]

\* HostBackend.get_capture_args
GetCaptureArgs(platform, env, pat) ==
    CASE platform = "darwin" ->
           IF GetWindowBounds(platform, env, pat).kind # "bounds"
           THEN Answer(<<>>, TRUE)
           ELSE Answer(<<"-f", "avfoundation", "-capture_cursor", "-framerate",
                         "-pixel_format", "-i">>, FALSE)
      [] platform = "linux" ->
           \* get_window_id is called before the try: _linux_check_deps raises
           IF ~env.deps THEN [kind |-> "raised", exc |-> "DependencyMissingError"]
           ELSE IF ~env.xid THEN Answer(<<>>, TRUE)
           ELSE IF GetWindowBounds(platform, env, pat).kind # "bounds"
                THEN Answer(<<>>, TRUE)
                ELSE Answer(<<"-f", "x11grab", "-video_size", "-framerate", "-i">>,
                            FALSE)
      [] platform = "win32" -> Answer(<<"-f", "gdigrab", "-framerate", "-i">>, FALSE)
      [] OTHER -> Answer(<<>>, TRUE)

CaptureArgs ==
    /\ helper.fn = "get_capture_args" /\ helper.st = "call"
    /\ helper' = [fn |-> "get_capture_args", st |-> "done",
                  platform |-> helper.platform, env |-> helper.env,
                  pat |-> helper.pat,
                  res |-> GetCaptureArgs(helper.platform, helper.env, helper.pat)]
    /\ UNCHANGED <<ctl, procs, logs, files, tasks, lastObs, now, geom, mux>>

\* get_region_capture_args of the second server
RegionCaptureArgs(platform, container) ==
    CASE container \/ platform = "linux" ->
           <<"-f", "x11grab", "-video_size", "WxH", "-framerate", "fps", "-i", "display">>
      [] platform = "darwin" ->
           <<"-f", "avfoundation", "-capture_cursor", "1", "-framerate", "fps",
             "-pixel_format", "uyvy422", "-i", "screen">>
      [] platform = "win32" ->
           <<"-f", "gdigrab", "-framerate", "fps", "-offset_x", "x", "-offset_y", "y",
             "-video_size", "WxH", "-i", "desktop">>
      [] OTHER -> <<>>

\* get_window_capture_args of the second server, for a window that was
\* found: the arguments, and whether there is a crop filter; no arguments
\* where the platform is not supported
WindowCaptureArgs(platform, container) ==
    CASE platform = "darwin" ->
           [args |-> RegionCaptureArgs(platform, container),
            crop |-> ~container]
      [] platform = "linux" ->
           [args |-> <<"-f", "x11grab", "-video_size", "WxH", "-i", "display">>,
            crop |-> FALSE]
      [] platform = "win32" ->
           [args |-> <<"-f", "gdigrab", "-i", "title">>, crop |-> FALSE]
      [] OTHER -> [args |-> <<>>, crop |-> FALSE]

\* the command start_recording of the second server spawns
StartCmdOf(platform, container) ==
    LET w == WindowCaptureArgs(platform, container) IN
    IF w.args = <<>> THEN <<>>
    ELSE <<"ffmpeg", "-y">> \o w.args
           \o (IF w.crop \/ ~container THEN <<"-vf", "filters">> ELSE <<>>)
           \o <<"-c:v", "libx264", "-preset", "ultrafast", "-crf", "23",
                "-pix_fmt", "yuv420p", "-movflags", "frag_keyframe+empty_moov",
                "out">>

\* get_screen_capture_args of the first server
LegacyScreenArgs(platform) ==
    CASE platform = "darwin" ->
           <<"-f", "avfoundation", "-capture_cursor", "1", "-framerate", "30",
             "-pixel_format", "uyvy422", "-i", "screen">>
      [] platform = "linux" -> <<"-f", "x11grab", "-i", "display">>
      [] platform = "win32" -> <<"-f", "gdigrab", "-i", "desktop">>
      [] OTHER -> <<>>

\* the command _start_recording of the first server spawns
LegacyCmdOf(platform) ==
    IF LegacyScreenArgs(platform) = <<>> THEN <<>>
    ELSE <<"ffmpeg", "-y">> \o LegacyScreenArgs(platform)
           \o <<"-vf", "scale", "-c:v", "libx264", "-preset", "ultrafast",
                "-crf", "23", "-pix_fmt", "yuv420p", "out">>

BuildCommand ==
    /\ helper.fn = "start_command" /\ helper.st = "call"
    /\ helper' = [fn |-> "start_command", st |-> "done",
                  server |-> helper.server, platform |-> helper.platform,
                  container |-> helper.container,
                  res |-> IF helper.server = "recorder"
                          THEN StartCmdOf(helper.platform, helper.container)
                          ELSE LegacyCmdOf(helper.platform)]
    /\ UNCHANGED <<ctl, procs, logs, files, tasks, lastObs, now, geom, mux>>

\* RecordingState: the process is None, running or exited; the log file is
\* None, an open handle or a closed one; the other fields are None (0) or set
RecStates ==
    [process : {"none", "alive", "exited"}, output_path : 0..1, start_time : 0..1,
     log_file : {"none", "open", "closed"}, last_file_size : 0..1,
     window_title : 0..1]

\* RecordingState()
FreshState ==
    [process |-> "none", output_path |-> 0, start_time |-> 0,
     log_file |-> "none", last_file_size |-> 0, window_title |-> 0]

\* is_recording
IsRecordingOf(s) == s.process # "none" /\ s.process = "alive"

\* a reset that leaves the size
ResetKeepSize(s) == [FreshState EXCEPT !.last_file_size = s.last_file_size]

\* reset: the assignments
ResetOf(s) ==
    [process |-> "none", output_path |-> 0, start_time |-> 0,
     log_file |-> "none", last_file_size |-> 0, window_title |-> 0]

\* state.reset(), called once and once more; handle is the file object the
\* state referred to at first
ResetState ==
    /\ helper.fn = "reset" /\ helper.st \in {"call", "once"}
    /\ helper' = [fn |-> "reset",
                  st |-> IF helper.st = "call" THEN "once" ELSE "twice",
                  state0 |-> helper.state0,
                  first |-> IF helper.st = "call" THEN ResetOf(helper.state)
                            ELSE helper.first,
                  state |-> ResetOf(helper.state),
                  handle |-> IF helper.state.log_file # "none" THEN "closed"
                             ELSE helper.handle]
    /\ UNCHANGED <<ctl, procs, logs, files, tasks, lastObs, now, geom, mux>>

\* the video filters of a start of the second server: the rectangle that is
\* captured comes from the bounds get_window_capture_args read, the size of
\* the scale filter from the bounds start_recording reads after it, 1920 by
\* 1080 when that query raises
VideoFilters(platform, container, first, second) ==
    LET crop == platform = "darwin" /\ ~container IN
    [rect  |-> CASE platform = "darwin" -> <<first.w, first.h>>
                 [] platform = "linux" -> <<EvenUp(first.w), EvenUp(first.h)>>
                 [] OTHER -> <<>>,
     scale |-> IF crop \/ ~container
               THEN IF second.ok THEN <<second.w, second.h>> ELSE <<1920, 1080>>
               ELSE <<>>]

BuildFilters ==
    /\ helper.fn = "video_filters" /\ helper.st = "call"
    /\ helper' = [fn |-> "video_filters", st |-> "done",
                  platform |-> helper.platform, container |-> helper.container,
                  first |-> helper.first, second |-> helper.second,
                  res |-> VideoFilters(helper.platform, helper.container,
                                       helper.first, helper.second)]
    /\ UNCHANGED <<ctl, procs, logs, files, tasks, lastObs, now, geom, mux>>

HelperCalls ==
    [fn : {"list_screens"}, st : {"call"}, platform : Platforms, run : ScriptRuns]
    \cup [fn : {"list_windows"}, st : {"call"}, env : ListEnvs]
    \cup [fn : {"get_window_bounds"}, st : {"call"}, platform : {"darwin"},
           env : ListEnvs, pat : Patterns]
    \cup [fn : {"get_window_bounds"}, st : {"call"}, platform : {"linux"},
           env : LinuxEnvs, pat : Patterns]
    \cup [fn : {"get_capture_args"}, st : {"call"}, platform : {"darwin"},
           env : ListEnvs, pat : Patterns]
    \cup [fn : {"get_capture_args"}, st : {"call"}, platform : {"linux"},
           env : LinuxEnvs, pat : Patterns]
    \cup [fn : {"get_capture_args"}, st : {"call"}, platform : {"win32", "other"},
           env : {Unasked}, pat : Patterns]
    \cup [fn : {"start_command"}, st : {"call"}, server : {"recorder", "getademo"},
           platform : Platforms, container : BOOLEAN]
    \cup { [fn |-> "reset", st |-> "call", state0 |-> s, first |-> s, state |-> s,
             handle |-> s.log_file] : s \in RecStates }
    \cup [fn : {"video_filters"}, st : {"call"},
           platform : {"darwin", "linux", "win32"}, container : BOOLEAN,
           first : [w : {2, 3, 6}, h : {2}],
           second : [ok : BOOLEAN, w : {2, 3, 6}, h : {2}]]

InitHelpers ==
    /\ recording_process = 0
    /\ recording_path = 0
    /\ recording_start_time = 0
    /\ recording_log_file = 0
    /\ recording_last_size = 0
    /\ procs = [p \in Pids |-> NoProc]
    /\ logs = [l \in Logs |-> "none"]
    /\ files = [f \in Files |-> -1]
    /\ tasks = [t \in Tasks |-> NoTask]
    /\ lastObs = -1
    /\ now = 1
    /\ geom = NoGeom
    /\ helper \in HelperCalls
    /\ mux = NoMux

NextHelpers ==
    \/ ListScreens
    \/ ListWindows
    \/ FindWindow
    \/ CaptureArgs
    \/ BuildCommand
    \/ ResetState
    \/ BuildFilters

SpecHelpers == InitHelpers /\ [][NextHelpers]_vars

\* ------------------------------------------------------------ multiplexer
\* One child and the calls of _send_request on it.  A call runs without
\* interruption up to its await; the reader task takes one line of the
\* child's output at a time.
Callers == 1..MaxCallers

NoReq == [pc |-> "idle", id |-> 0, got |-> 0]

\* a child that was started: request_id = 0, pending_requests = {}
InitMux ==
    /\ recording_process = 0
    /\ recording_path = 0
    /\ recording_start_time = 0
    /\ recording_log_file = 0
    /\ recording_last_size = 0
    /\ procs = [p \in Pids |-> NoProc]
    /\ logs = [l \in Logs |-> "none"]
    /\ files = [f \in Files |-> -1]
    /\ tasks = [t \in Tasks |-> NoTask]
    /\ lastObs = -1
    /\ now = 1
    /\ geom = NoGeom
    /\ helper = NoCall
    /\ mux = [alive |-> TRUE,       \* the child process runs
              request_id |-> 0,     \* child.request_id
              pending |-> {},       \* the keys of child.pending_requests
              results |-> {},       \* ids whose future holds a response
              inbox |-> {},         \* requests the child has not answered
              outbox |-> {},        \* responses the reader has not read
              calls |-> [c \in Callers |-> NoReq]]

Rest == <<ctl, procs, logs, files, tasks, lastObs, now, geom, helper>>

\* _send_request up to the wait: the id is taken and the future stored with
\* no await in between; the write to a child that has exited is lost, and
\* drain() raises ConnectionResetError or returns
SendRequest(c) ==
    /\ mux.calls[c].pc = "idle" /\ mux.request_id < MaxReq
    /\ LET id == mux.request_id + 1 IN
       \E raises \in BOOLEAN :
           /\ raises => ~mux.alive
           /\ mux' = [mux EXCEPT
                        !.request_id = id,
                        !.pending = @ \cup {id},
                        !.inbox = IF mux.alive THEN @ \cup {id} ELSE @,
                        !.calls[c] = [pc |-> IF raises THEN "raised" ELSE "wait",
                                      id |-> id, got |-> 0]]
    /\ UNCHANGED Rest

\* the child writes the response to a request
ChildAnswer ==
    /\ mux.alive
    /\ \E id \in mux.inbox :
           mux' = [mux EXCEPT !.inbox = @ \ {id}, !.outbox = @ \cup {id}]
    /\ UNCHANGED Rest

\* the child exits; what it wrote stays in the pipe
ChildExit ==
    /\ mux.alive
    /\ mux' = [mux EXCEPT !.alive = FALSE, !.inbox = {}]
    /\ UNCHANGED Rest

\* _read_child_output, one line: the future of the id is taken out of
\* pending_requests and given the response
ReadLine ==
    /\ \E id \in mux.outbox :
           mux' = [mux EXCEPT
                     !.outbox = @ \ {id},
                     !.pending = @ \ {id},
                     !.results = IF id \in mux.pending THEN @ \cup {id} ELSE @]
    /\ UNCHANGED Rest

\* wait_for returns the response of the call's own future
Receive(c) ==
    /\ mux.calls[c].pc = "wait" /\ mux.calls[c].id \in mux.results
    /\ mux' = [mux EXCEPT !.calls[c].pc = "returned",
                          !.calls[c].got = mux.calls[c].id,
                          !.results = @ \ {mux.calls[c].id}]
    /\ UNCHANGED Rest

\* wait_for times out: the id is popped and TimeoutError raised
TimeOut(c) ==
    /\ mux.calls[c].pc = "wait" /\ mux.calls[c].id \notin mux.results
    /\ mux' = [mux EXCEPT !.calls[c].pc = "timeout",
                          !.pending = @ \ {mux.calls[c].id}]
    /\ UNCHANGED Rest

\* the caller has its answer and may call again
Again(c) ==
    /\ mux.calls[c].pc \in {"returned", "timeout", "raised"}
    /\ mux' = [mux EXCEPT !.calls[c] = NoReq]
    /\ UNCHANGED Rest

NextMux ==
    \/ \E c \in Callers : SendRequest(c)
    \/ ChildAnswer
    \/ ChildExit
    \/ ReadLine
    \/ \E c \in Callers : Receive(c)
    \/ \E c \in Callers : TimeOut(c)
    \/ \E c \in Callers : Again(c)

SpecMux == InitMux /\ [][NextMux]_vars

\* ================================================================ claims
CtlAlive == {p \in CtlPids : procs[p].st = "alive"}

\* C1: at most one capture process spawned by the controller is alive at
\* any time, whatever the interleaving of the calls.
AtMostOneCapture == Cardinality(CtlAlive) <= 1

\* C2: a start() called with a window title while a session is recording
\* spawns nothing and returns AlreadyRecording (unless that session's
\* process ended by itself or was stopped while the call was in flight).
StartWhileRecordingRejected ==
    \A t \in Tasks :
        (/\ tasks[t].op = "start" /\ tasks[t].title
         /\ tasks[t].recAtCall # 0
         /\ procs[tasks[t].recAtCall].by \notin {"self", "stop"})
        => /\ tasks[t].spawned = 0
           /\ (tasks[t].pc = "done" => tasks[t].res = "AlreadyRecording")

Ladder == <<"q", "int", "term", "kill">>

RungNo(r) == CHOOSE k \in 1..4 : Ladder[k] = r

WaitAfter(r) == IF r = "q" THEN 30 ELSE 20

RECURSIVE WaitsBefore(_, _)
WaitsBefore(rungs, k) ==
    IF k <= 1 THEN 0 ELSE WaitAfter(rungs[k - 1]) + WaitsBefore(rungs, k - 1)

\* C3: the rungs a stop() sends to the process go out in ladder order
\* without a gap, a later rung only after every poll of the wait before it
\* (30 after 'q', 20 after the others) saw the process alive, and a call
\* that saw the process gone sends nothing more.  A rung counts as sent when
\* it reached a process: a broken pipe sends no 'q', and send_signal sends
\* nothing to a process that has exited.
LadderOrder ==
    \A t \in Tasks : tasks[t].op = "stop" =>
        LET r == tasks[t].rungs IN
        /\ \A k \in 1..Len(r) : r[k] \in {"q", "int", "term", "kill"}
        /\ \A k \in 1..(Len(r) - 1) : RungNo(r[k + 1]) = RungNo(r[k]) + 1
        /\ tasks[t].waits >= WaitsBefore(r, Len(r))
        /\ (tasks[t].stopped => tasks[t].pc = "done")

\* all four rungs were needed
LadderOrderWitness ==
    \E t \in Tasks : /\ tasks[t].op = "stop" /\ tasks[t].pc = "done"
                     /\ tasks[t].rungs = Ladder
                     /\ tasks[t].waits = 71

\* C4: a stop() that found the capture process alive returns after at most
\* 30 + 20 + 20 polls and one last wait, and the controller is idle then.
StopReturnsIdle ==
    \A t \in Tasks :
        (/\ tasks[t].op = "stop" /\ tasks[t].pc = "done"
         /\ tasks[t].res \notin {"NoRecording", "AlreadyStopped"})
        => /\ tasks[t].idle
           /\ tasks[t].waits <= 30 + 20 + 20 + 1

\* C5: a stop() that finds the capture process already gone leaves the
\* controller idle: process, path, start time and log handle are cleared.
StopAfterExitClears ==
    \A t \in Tasks :
        (/\ tasks[t].op = "stop" /\ tasks[t].pc = "done"
         /\ tasks[t].res = "AlreadyStopped"
         /\ \A u \in Tasks \ {t} : tasks[u].op = "none") => tasks[t].idle

OpenLogs == {l \in Logs : logs[l] = "open"}

\* C6: at most one log handle is open, an open handle is the one the
\* controller holds, and none is open while the controller holds no process.
LogHandleOwned ==
    /\ Cardinality(OpenLogs) <= 1
    /\ \A l \in OpenLogs : recording_log_file = l
    /\ (recording_process = 0 => OpenLogs = {})

\* C7: the orphan scan of a start() never kills the capture process of the
\* session that is recording.
ReaperSparesLiveSession ==
    \A t \in Tasks : tasks[t].op = "start" => ~tasks[t].killedLive

HoldsDirPath(cmd) ==
    \E i \in 1..(Len(cmd) - 1) : cmd[i] = "home" /\ cmd[i + 1] = "rec"

\* C8: the scan kills only processes whose command line holds the path of
\* the recordings directory, and returns the number of kills it sent.
ReaperOnlyInDir ==
    /\ \A p \in Pids : procs[p].st = "dead" =>
            /\ procs[p].by = "reaper"
            /\ HoldsDirPath(procs[p].cmd)
    /\ \A t \in Tasks : tasks[t].op = "reap" =>
            tasks[t].killed = Cardinality({p \in Pids : procs[p].st = "dead"})

\* something was killed and an ffmpeg outside the directory was spared
ReaperOnlyInDirWitness ==
    /\ tasks[1].op = "reap" /\ tasks[1].killed = 2
    /\ \E p \in Pids : /\ procs[p].st = "alive"
                       /\ MatchesFfmpeg(procs[p].cmd)
                       /\ ~HoldsDirPath(procs[p].cmd)

HealthMatchesSizes ==
    \A t \in Tasks :
        (tasks[t].op = "status" /\ tasks[t].res = "InProgress") =>
            (tasks[t].health = "stalled"
                <=> (tasks[t].prev # -1 /\ tasks[t].cur = tasks[t].prev))

\* C11: a stop() on an idle controller changes no field of the controller,
\* no process, log or file, sends nothing and replies "no recording"; a
\* status() replies in every state and never raises.
StopIdleStatusSafe ==
    [][\A t \in Tasks :
          /\ (StopCall(t) /\ SessionCleared) =>
                 /\ UNCHANGED <<ctl, procs, logs, files>>
                 /\ tasks'[t].res = "NoRecording"
                 /\ tasks'[t].rungs = <<>>
          /\ Status(t) => tasks'[t].res \in {"NoRecording", "InProgress"}]_vars

\* a stop() has replied on an idle controller while a status() of a session
\* whose process is gone has replied too
StopIdleStatusSafeWitness ==
    \E t, u \in Tasks :
        /\ tasks[t].op = "stop" /\ tasks[t].res = "NoRecording" /\ tasks[t].idle
        /\ tasks[u].op = "status" /\ tasks[u].pc = "done"

\* C12: a status() call changes no field of the controller and no process.
StatusReadOnly ==
    [][\A t \in Tasks : Status(t) => UNCHANGED <<ctl, procs>>]_vars

\* C13: a start() whose capture process is gone when the grace period ends
\* replies with the spawn failure and leaves the controller idle, the log
\* handle closed.
GraceFailureClears ==
    [][\A t \in Tasks :
          (StartGrace(t) /\ procs[tasks[t].spawned].st # "alive") =>
              /\ tasks'[t].res = "SpawnFailure"
              /\ SessionCleared'
              /\ recording_log_file # 0
              /\ logs'[recording_log_file] = "closed"]_vars

\* C14: a start() that ends without a capture process replies with a
\* failure result, never with an exception, and leaves the controller idle.
StartFailuresReturned ==
    \A t \in Tasks :
        (/\ tasks[t].op = "start" /\ tasks[t].pc = "done"
         /\ tasks[t].spawned = 0
         /\ tasks[t].res \notin {"TitleRequired", "AlreadyRecording"})
        => /\ tasks[t].res \in {"WindowNotFound", "CaptureError"}
           /\ tasks[t].idle

\* C15: a stop() that went through the ladder replies with a duration and a
\* file size that are not negative.
StopDurationSizeNonNeg ==
    \A t \in Tasks :
        (tasks[t].op = "stop" /\ tasks[t].res = "Stopped")
        => tasks[t].dur >= 0 /\ tasks[t].size >= 0

\* the state of the session as the calls in flight and the held process
\* give it
Phase ==
    IF \E t \in Tasks : /\ tasks[t].op = "stop"
                         /\ tasks[t].pc \in {"wait_q", "wait_int",
                                              "wait_term", "wait_kill"}
    THEN "Stopping"
    ELSE IF \E t \in Tasks : /\ tasks[t].op = "start"
                              /\ tasks[t].pc \in {"focus_wait", "grace"}
    THEN "Starting"
    ELSE IF recording_process # 0 THEN "Recording"
    ELSE "Idle"

Edges ==
    { <<"Idle", "Starting">>, <<"Starting", "Recording">>,
      <<"Recording", "Stopping">>, <<"Stopping", "Idle">>,
      <<"Starting", "Idle">> }

\* C16: the state of the session changes only along Idle -> Starting ->
\* Recording -> Stopping -> Idle and Starting -> (Failed) -> Idle.
PhaseEdges == [][Phase' # Phase => <<Phase, Phase'>> \in Edges]_vars

\* the columns and the rows of unit cells a window and a screen have in
\* common
SharedCols(b, sc) == (b.x..(b.x + b.width - 1)) \cap (sc.x..(sc.x + sc.width - 1))
SharedRows(b, sc) == (b.y..(b.y + b.height - 1)) \cap (sc.y..(sc.y + sc.height - 1))

Area(b, sc) == Cardinality(SharedCols(b, sc)) * Cardinality(SharedRows(b, sc))

Resolved == geom.st = "done"

SomeOverlap == \E k \in 1..Len(geom.screens) : Area(geom.b, geom.screens[k]) > 0

\* C17: when some screen overlaps the window, the resolver answers with
\* the index of a screen whose overlap with the window is the largest.
MaxOverlapChosen ==
    (Resolved /\ SomeOverlap) =>
        /\ geom.found.index \in 1..Len(geom.screens)
        /\ \A k \in 1..Len(geom.screens) :
               Area(geom.b, geom.screens[geom.found.index])
                   >= Area(geom.b, geom.screens[k])

\* the window's corner lies on the first screen, most of it on the second
MaxOverlapChosenWitness ==
    /\ Resolved /\ Len(geom.screens) = 2
    /\ geom.b.x \in geom.screens[1].x..(geom.screens[1].x + geom.screens[1].width - 1)
    /\ geom.b.y \in geom.screens[1].y..(geom.screens[1].y + geom.screens[1].height - 1)
    /\ Area(geom.b, geom.screens[1]) > 0
    /\ Area(geom.b, geom.screens[2]) > Area(geom.b, geom.screens[1])
    /\ geom.found.index = 2

\* C18: when no screen overlaps the window, the resolver answers screen 1
\* and the crop origin is not negative.
NoOverlapDefault ==
    (Resolved /\ ~SomeOverlap) =>
        /\ geom.found.index = 1
        /\ geom.found.x >= 0 /\ geom.found.y >= 0
        /\ geom.crop.x >= 0 /\ geom.crop.y >= 0

\* a window left of and above every screen
NoOverlapDefaultWitness ==
    /\ Resolved /\ ~SomeOverlap
    /\ geom.b.x < 0 /\ geom.b.y < 0
    /\ geom.crop.x = 0 /\ geom.crop.y = 0

\* C19: width, height and origin of the crop rectangle are even.
CropEven ==
    Resolved =>
        /\ geom.crop.width % 2 = 0 /\ geom.crop.height % 2 = 0
        /\ geom.crop.x % 2 = 0 /\ geom.crop.y % 2 = 0

\* the scaled width and the scaled origin were odd
CropEvenWitness ==
    /\ Resolved
    /\ (geom.b.width * geom.found.scale) % 2 = 1
    /\ (geom.found.x * geom.found.scale) % 2 = 1
    /\ geom.crop.width = geom.b.width * geom.found.scale - 1
    /\ geom.crop.x = geom.found.x * geom.found.scale + 1

\* C20: the crop rectangle of a window that overlaps a screen lies inside
\* the pixel area of the chosen screen.
CropInsideScreen ==
    (Resolved /\ SomeOverlap) =>
        LET sc == geom.screens[geom.crop.index] IN
        /\ geom.crop.x >= 0 /\ geom.crop.y >= 0
        /\ geom.crop.x + geom.crop.width <= sc.width * sc.scale
        /\ geom.crop.y + geom.crop.height <= sc.height * sc.scale

Chosen == geom.screens[geom.found.index]

AtLeastZero(v) == IF v < 0 THEN 0 ELSE v

SizeRoundedUp ==
    Resolved =>
        LET w == geom.b.width * geom.found.scale
            h == geom.b.height * geom.found.scale IN
        /\ geom.crop.width = IF w % 2 = 1 THEN w + 1 ELSE w
        /\ geom.crop.height = IF h % 2 = 1 THEN h + 1 ELSE h
        /\ geom.crop.width >= w /\ geom.crop.height >= h

\* ------------------------------------------------ claims on the helpers

\* C22: a call of list_screens never answers with an empty sequence; when
\* the enumeration raised or gave no line that parses, the answer is exactly
\* the one default screen.
ListScreensNonEmpty ==
    (helper.fn = "list_screens" /\ helper.st = "done") =>
        /\ helper.res # <<>>
        /\ (\/ ~helper.run.ok
            \/ \A i \in 1..Len(helper.run.lines) :
                   helper.run.lines[i] \notin {"four", "five"})
               => helper.res = <<DefaultScreen>>

Looked == helper.fn = "get_window_bounds" /\ helper.st = "done"

\* text holds the pattern when case is ignored
Holds(text, pat) ==
    \E a \in 1..Len(text) : \E b \in a..Len(text) :
        /\ b - a + 1 = Len(pat)
        /\ \A i \in 1..Len(pat) : Fold(text[a + i - 1]) = Fold(pat[i])

\* the positions of the listed windows whose title or application name
\* holds the pattern
Fitting ==
    {i \in 1..Len(helper.wins) :
        Holds(helper.wins[i].title, helper.pat) \/ Holds(helper.wins[i].app, helper.pat)}

\* C23: a search for a window answers with the bounds of the first listed
\* window whose title or application name holds the pattern, case ignored;
\* it answers not-found when the windows were listed and none fits, and it
\* never answers with the bounds of a window that does not fit.
FirstMatchWins ==
    Looked =>
        /\ helper.res.kind = "bounds" =>
               /\ helper.res.pos \in Fitting
               /\ \A i \in Fitting : helper.res.pos <= i
               /\ helper.res.size = helper.wins[helper.res.pos].size
        /\ (Fitting = {} /\ helper.res.kind \notin {"DependencyMissingError",
                                                     "WindowManagerError"})
               => helper.res.kind = "WindowNotFoundError"
        /\ helper.res.kind = "WindowNotFoundError" => Fitting = {}

\* the first of two windows fits by its application name alone and in
\* another case, the second by its title, and the answer is the first
FirstMatchWinsWitness ==
    /\ Looked /\ helper.platform = "darwin"
    /\ helper.res.kind = "bounds" /\ helper.res.pos = 1
    /\ Len(helper.wins) >= 2
    /\ ~Holds(helper.wins[1].title, helper.pat)
    /\ Holds(helper.wins[2].title, helper.pat)
    /\ helper.wins[1].app # helper.pat

MergedList == helper.fn = "list_windows" /\ helper.st = "done"

\* C24: the merged window list never holds two entries with the same
\* application name and title.
MergedNoDuplicate ==
    MergedList =>
        \A i, j \in 1..Len(helper.res) :
            (helper.res[i].app = helper.res[j].app
                /\ helper.res[i].title = helper.res[j].title) => i = j

\* C25: no window whose reported bounds are under 50 on both sides is in
\* the merged window list.
MergedNoTiny ==
    MergedList => \A i \in 1..Len(helper.res) : helper.res[i].size # "tiny"

\* C26: a call of the builder of the capture arguments never raises; its
\* answer has the error set and no arguments when the platform is not
\* supported or, on macOS and Linux, when the window was not resolved.
BuilderNeverRaises ==
    (helper.fn = "get_capture_args" /\ helper.st = "done") =>
        /\ helper.res.kind = "returned"
        /\ helper.res.err => helper.res.args = <<>>
        /\ helper.platform = "other" => helper.res.err
        /\ (helper.platform = "linux" /\ (~helper.env.deps \/ ~helper.env.xid))
               => helper.res.err

\* flag is in the command, followed by value
HasOption(cmd, flag, value) ==
    \E i \in 1..(Len(cmd) - 1) : cmd[i] = flag /\ cmd[i + 1] = value

HasFlag(cmd, flag) == \E i \in 1..Len(cmd) : cmd[i] = flag

\* C27: every command that a start spawns, on every platform, has a
\* framerate, a pixel format, the preset ultrafast and the fragmented
\* output flags.
SpawnedCmdFlags ==
    (helper.fn = "start_command" /\ helper.st = "done" /\ helper.res # <<>>) =>
        /\ HasFlag(helper.res, "-framerate")
        /\ HasFlag(helper.res, "-pix_fmt") \/ HasFlag(helper.res, "-pixel_format")
        /\ HasOption(helper.res, "-preset", "ultrafast")
        /\ HasOption(helper.res, "-movflags", "frag_keyframe+empty_moov")

\* C28: the output of every capture process that a start spawned goes to
\* the log file of the session and not to a pipe, and the process is never
\* stopped by a pipe that is full.
OutputToLog ==
    \A p \in CtlPids :
        procs[p].st = "alive" =>
            /\ procs[p].out = "log"
            /\ procs[p].buf < PipeCap

WasReset == helper.fn = "reset" /\ helper.st \in {"once", "twice"}

\* C29: after reset, whatever the state was, process, output path, start
\* time, log file and window title are None, the last file size is 0 and
\* is_recording is false; a log file that was open is closed; a second
\* reset changes nothing; and a new state is not recording.
ResetRestores ==
    /\ ~IsRecordingOf(FreshState)
    /\ WasReset =>
           /\ helper.state.process = "none" /\ helper.state.output_path = 0
           /\ helper.state.start_time = 0 /\ helper.state.log_file = "none"
           /\ helper.state.window_title = 0 /\ helper.state.last_file_size = 0
           /\ ~IsRecordingOf(helper.state)
           /\ helper.state0.log_file = "open" => helper.handle = "closed"
           /\ helper.state0.log_file = "none" => helper.handle = "none"
           /\ helper.st = "twice" => helper.state = helper.first

\* a state that was recording, with an open log and a size, reset twice
ResetRestoresWitness ==
    /\ helper.fn = "reset" /\ helper.st = "twice"
    /\ helper.state0.process = "alive" /\ helper.state0.log_file = "open"
    /\ helper.state0.last_file_size = 1 /\ helper.state0.window_title = 1

\* a stop ends the session in this step
StopEnds(t) ==
    /\ tasks[t].op = "stop" /\ tasks[t].pc # "done"
    /\ tasks'[t].pc = "done" /\ tasks'[t].res = "Stopped"

Suspended(t) ==
    tasks[t].pc \in {"grace", "wait_q", "wait_int", "wait_term", "wait_kill"}

\* C32: a start that waits in its grace period and a stop that waits in
\* the ladder return a result whatever another stop did in between, none
\* raises, and when such a stop has ended the controller holds no process
\* and no capture process of the controller is alive.
SuspendedCallsReturn ==
    [][\A t \in Tasks :
          (Suspended(t) /\ tasks'[t].pc = "done") =>
              /\ tasks'[t].res # "raised"
              /\ tasks'[t].op = "stop" =>
                     /\ recording_process' = 0
                     /\ \A p \in CtlPids : procs'[p].st # "alive"]_vars

\* C33: whenever the controller holds no process, no capture process that
\* the controller spawned is alive.
IdleMeansNoneAlive ==
    recording_process = 0 => \A p \in CtlPids : procs[p].st # "alive"

\* C34: the process handle is set if and only if the output path, the start
\* time and the log handle are set, and the last observed size is 0 when
\* the process handle is None.
FieldsConsistent ==
    /\ (recording_process # 0) <=> (recording_path # 0)
    /\ (recording_process # 0) <=> (recording_start_time # 0)
    /\ (recording_process # 0) <=> (recording_log_file # 0)
    /\ recording_process = 0 => recording_last_size = 0

\* a start ends in this step without having reached the spawn
FailsEarly(t) ==
    /\ tasks[t].pc # "done" /\ tasks'[t].pc = "done" /\ tasks'[t].op = "start"
    /\ tasks'[t].res \in {"TitleRequired", "WindowNotFound", "CaptureError"}

\* C35: a start that fails before the spawn has spawned no process, has
\* changed no session field and has not ended a capture process that was
\* recording when it was called.
EarlyFailureHarmless ==
    [][\A t \in Tasks :
          FailsEarly(t) =>
              /\ tasks'[t].spawned = 0
              /\ ctl' = ctl
              /\ ~tasks'[t].killedLive
              /\ \A p \in CtlPids : procs[p].st = "alive" => procs'[p].st = "alive"]_vars

\* C36: the scale the resolver returns is the scale of the screen whose
\* index it returns, also when no screen overlaps the window.
ScaleOfChosen == Resolved => geom.found.scale = Chosen.scale

Ended(c) == mux.calls[c].pc \in {"returned", "timeout", "raised"}

\* C38: the requests of calls in flight have distinct ids, a call that
\* returned has the response that carries its id, a call ends by returning
\* or by a timeout error, and the id of a call that has ended is not in
\* pending_requests.
MuxDelivers ==
    mux # NoMux =>
        /\ \A c, d \in Callers :
               (c # d /\ mux.calls[c].pc # "idle" /\ mux.calls[d].pc # "idle")
                   => mux.calls[c].id # mux.calls[d].id
        /\ \A c \in Callers :
               mux.calls[c].pc = "returned" => mux.calls[c].got = mux.calls[c].id
        /\ \A c \in Callers :
               Ended(c) => /\ mux.calls[c].pc \in {"returned", "timeout"}
                           /\ mux.calls[c].id \notin mux.pending

====
